---------------------------- MODULE Spec2Model ----------------------------
(***************************************************************************)
(* Model of backend/server.py: the cache-aside read handlers get_weather   *)
(* and get_soil_data over the weather and soil collections.                *)
(*                                                                         *)
(* Time is counted in hours.  Temperatures, moisture and pH are kept in    *)
(* hundredths (273.15 K is 27315) so that the Kelvin conversion stays in   *)
(* the integers.  A handler is split at its awaits: the cache query, the   *)
(* provider call and the cache write are separate steps, and the clock and *)
(* other requests may move between them.  Each store operation (find_one,  *)
(* replace_one) takes effect in one step, and the store itself does not    *)
(* fail.  The two handlers share no state, so a run issues requests for    *)
(* one of the two datasets, chosen at the start.                           *)
(***************************************************************************)
EXTENDS Integers, Sequences, FiniteSets, TLC

\* ------------------------------------------------------------ program constants
\* timedelta(hours=1) in get_weather, timedelta(hours=6) in get_soil_data.
WeatherTTL == 1
SoilTTL == 6
\* weather_data.get("days", [])[:7]
ForecastDays == 7
\* soil_data.get("t0", 300), soil_data.get("t10", 300): 300 K, in hundredths.
DefaultKelvin == 30000
\* ... - 273.15, in hundredths.
KelvinOffset == 27315
\* soil_data.get("moisture", 0.2), in hundredths.
DefaultMoisture == 20
\* SoilData.ph default 6.5, in hundredths.
DefaultPh == 650
\* HTTPException(status_code=404, ...) and HTTPException(status_code=500, ...).
StatusNotFound == 404
StatusServerError == 500
\* HTTPException(status_code=400, ...) of create_polygon.
StatusBadRequest == 400
\* generate_crop_recommendations: the default temperature (degrees) and, in
\* hundredths, the base confidence, its two increments, the inclusion
\* threshold and the cap, and the moisture bands 0.3 and 0.15 .. 0.4.
DefaultTemp == 25
BaseConfidence == 70
TempBonus == 20
MoistureBonus == 10
MinConfidence == 60
MaxConfidence == 100
HighMoisture == 30
MediumMoistureLow == 15
MediumMoistureHigh == 40
\* recommendations[:5]
TopN == 5

\* ------------------------------------------------------------ bounds
\* The clock is read at the instants 0 and 1 and at those from the freshness
\* window's end up to Horizon hours past it.
Horizon == 1
\* The most records a run inserts into a collection that only grows
\* (recommendations, polygons).
MaxRecs == 2

\* Concurrent request slots, and the keys requests are made for.
Reqs == {"r1", "r2"}
Cities == {"Delhi", "Mumbai"}
Polygons == {"poly123", "poly456"}

Kinds == {"weather", "soil"}

\* ------------------------------------------------------------ Python values
\* The empty dict {} and the empty list [].
EmptyDict == [k \in {} |-> 0]
EmptyList == <<>>

\* d.get(k, default)
Get(d, k, default) == IF k \in DOMAIN d THEN d[k] ELSE default

\* Variant: `is not None` in place of truthiness; no dict is None.
TruthyNotNone(d) == DOMAIN d = DOMAIN d

\* bool(d) of a dict: a dict is truthy iff it is not empty.
Truthy(d) == DOMAIN d # {}

Min(a, b) == IF a < b THEN a ELSE b

\* s[:n]
Prefix(s, n) == SubSeq(s, 1, Min(n, Len(s)))

\* ------------------------------------------------------------ the providers
\* What fetch_weather_data can return: {} on any error (the except branch),
\* else the provider's JSON, which may lack currentConditions or days.
WeatherResponses ==
    { EmptyDict,
      [currentConditions |-> [temp |-> 28, humidity |-> 40],
       days |-> [i \in 1..8 |-> [temp |-> 20 + i]]],
      [days |-> <<[temp |-> 25]>>] }

\* What fetch_soil_data can return: {} on any error, else the provider's
\* JSON (t0, t10 in Kelvin, moisture), which may lack some of them.
SoilResponses ==
    { EmptyDict,
      [t0 |-> 29515, t10 |-> 29015, moisture |-> 35],
      [t0 |-> 28815] }

Responses(kind) == IF kind = "weather" THEN WeatherResponses ELSE SoilResponses

Keys(kind) == IF kind = "weather" THEN Cities ELSE Polygons

\* The field a collection is keyed by.
KeyField(kind) == IF kind = "weather" THEN "city" ELSE "polygon_id"

\* Variant: the two handlers' windows exchanged.
TTLSwapped(kind) == IF kind = "weather" THEN SoilTTL ELSE WeatherTTL

\* The freshness window of each handler.
TTL(kind) == IF kind = "weather" THEN WeatherTTL ELSE SoilTTL

\* The instants at which the clock is read in a run over one dataset.
Instants(kind) ==
    {t \in 0..(TTL(kind) + Horizon) : t <= 1 \/ t >= TTL(kind)}

\* ------------------------------------------------------------ the records
\* WeatherData(city=..., current=..., forecast=...) with updated_at from
\* default_factory=datetime.utcnow, as a dict.
WeatherDoc(city, weather_data, utcnow) ==
    [city |-> city,
     current |-> Get(weather_data, "currentConditions", EmptyDict),
     forecast |-> Prefix(Get(weather_data, "days", EmptyList), ForecastDays),
     updated_at |-> utcnow]

\* SoilData(polygon_id=..., temperature_surface=..., ...) as a dict.
SoilDoc(polygon_id, soil_data, utcnow) ==
    [polygon_id |-> polygon_id,
     temperature_surface |-> Get(soil_data, "t0", DefaultKelvin) - KelvinOffset,
     temperature_10cm |-> Get(soil_data, "t10", DefaultKelvin) - KelvinOffset,
     moisture |-> Get(soil_data, "moisture", DefaultMoisture),
     ph |-> DefaultPh,
     updated_at |-> utcnow]

BuildDoc(kind, key, data, utcnow) ==
    IF kind = "weather" THEN WeatherDoc(key, data, utcnow)
    ELSE SoilDoc(key, data, utcnow)

\* ------------------------------------------------------------ the store
\* A collection is the sequence of its documents in insertion order; an
\* optional document is a sequence of length at most one.

\* The positions of the documents of coll with the given key.
Matching(coll, kind, key) ==
    {i \in 1..Len(coll) : coll[i][KeyField(kind)] = key}

FirstOf(S) == CHOOSE i \in S : \A j \in S : i <= j

\* Variant: $lte in place of $gte.
FreshEnoughLte(doc, threshold) == doc.updated_at <= threshold

\* The filter's {"updated_at": {"$gte": threshold}}.
FreshEnough(doc, threshold) == doc.updated_at >= threshold

\* Variant: the filter without its updated_at condition.
FindOneNoFilter(coll, kind, key, threshold) ==
    LET hits == Matching(coll, kind, key)
    IN  IF hits = {} THEN <<>> ELSE <<coll[FirstOf(hits)]>>

\* Variant: the filter names a field no document has, so nothing matches.
FindOneWrongField(coll, kind, key, threshold) ==
    LET hits == {i \in 1..Len(coll) : "name" \in DOMAIN coll[i]}
    IN  IF hits = {} THEN <<>> ELSE <<coll[FirstOf(hits)]>>

\* find_one({key_field: key, "updated_at": {"$gte": threshold}})
FindOne(coll, kind, key, threshold) ==
    LET hits == {i \in Matching(coll, kind, key) : FreshEnough(coll[i], threshold)}
    IN  IF hits = {} THEN <<>> ELSE <<coll[FirstOf(hits)]>>

\* Variant: insert_one(doc).
InsertOne(coll, kind, key, doc) == Append(coll, doc)

\* Variant: update_one with a merge of the nested dict: the keys of the old
\* `current` that the new one lacks are kept.
MergeDicts(old, new) ==
    [k \in DOMAIN old \cup DOMAIN new |-> IF k \in DOMAIN new THEN new[k] ELSE old[k]]

UpdateOneMerge(coll, kind, key, doc) ==
    LET hits == Matching(coll, kind, key)
    IN  IF hits = {} THEN Append(coll, doc)
        ELSE [coll EXCEPT ![FirstOf(hits)] =
                IF kind = "weather"
                THEN [doc EXCEPT !.current =
                        MergeDicts(coll[FirstOf(hits)].current, doc.current)]
                ELSE doc]

\* Variant: the payload is replaced but the later of the two updated_at is
\* kept.
UpdateOneMaxStamp(coll, kind, key, doc) ==
    LET hits == Matching(coll, kind, key)
    IN  IF hits = {} THEN Append(coll, doc)
        ELSE [coll EXCEPT ![FirstOf(hits)] =
                [doc EXCEPT !.updated_at =
                   IF coll[FirstOf(hits)].updated_at > doc.updated_at
                   THEN coll[FirstOf(hits)].updated_at ELSE doc.updated_at]]

\* Variant: replace_one without upsert=True: with no document under the key
\* nothing is written.
ReplaceOneNoUpsert(coll, kind, key, doc) ==
    LET hits == Matching(coll, kind, key)
    IN  IF hits = {} THEN coll
        ELSE [coll EXCEPT ![FirstOf(hits)] = doc]

\* Variant: replace_one({}, doc, upsert=True): the empty filter matches the
\* first document of the collection, whatever its key.
ReplaceOneAnyKey(coll, kind, key, doc) ==
    IF Len(coll) = 0 THEN Append(coll, doc)
    ELSE [coll EXCEPT ![1] = doc]

\* replace_one({key_field: key}, doc, upsert=True): the first document with
\* the key is replaced as a whole; with none, doc is inserted.
ReplaceOneUpsert(coll, kind, key, doc) ==
    LET hits == Matching(coll, kind, key)
    IN  IF hits = {} THEN Append(coll, doc)
        ELSE [coll EXCEPT ![FirstOf(hits)] = doc]

\* ------------------------------------------------------------ recommendations
\* crops_db of generate_crop_recommendations (pH ranges in hundredths).
crops_db ==
    << [name |-> "Rice", temp_min |-> 20, temp_max |-> 35, moisture_req |-> "high",
        ph_min |-> 550, ph_max |-> 700, season |-> "Kharif",
        yield_per_acre |-> 25, price_per_kg |-> 25],
       [name |-> "Wheat", temp_min |-> 15, temp_max |-> 25, moisture_req |-> "medium",
        ph_min |-> 600, ph_max |-> 750, season |-> "Rabi",
        yield_per_acre |-> 20, price_per_kg |-> 22],
       [name |-> "Cotton", temp_min |-> 21, temp_max |-> 30, moisture_req |-> "medium",
        ph_min |-> 600, ph_max |-> 800, season |-> "Kharif",
        yield_per_acre |-> 15, price_per_kg |-> 45],
       [name |-> "Sugarcane", temp_min |-> 20, temp_max |-> 30, moisture_req |-> "high",
        ph_min |-> 600, ph_max |-> 750, season |-> "Kharif",
        yield_per_acre |-> 400, price_per_kg |-> 3],
       [name |-> "Maize", temp_min |-> 18, temp_max |-> 27, moisture_req |-> "medium",
        ph_min |-> 600, ph_max |-> 700, season |-> "Kharif/Rabi",
        yield_per_acre |-> 18, price_per_kg |-> 18] >>

\* The outcome of a call: a returned value, or an exception raised.
Returned(v) == [raised |-> FALSE, value |-> v]
Raised == [raised |-> TRUE, value |-> <<>>]

\* current_temp: 25 unless the weather data has "days", and then the "temp"
\* of days[0] (25 if it has none); days[0] of an empty list raises IndexError.
CurrentTemp(weather_data) ==
    IF Truthy(weather_data) /\ "days" \in DOMAIN weather_data
    THEN IF Len(weather_data["days"]) = 0 THEN Raised
         ELSE Returned(Get(weather_data["days"][1], "temp", DefaultTemp))
    ELSE Returned(DefaultTemp)

\* soil_data.get("moisture", 0.2) if soil_data else 0.2
SoilMoisture(soil_data) ==
    IF Truthy(soil_data) THEN Get(soil_data, "moisture", DefaultMoisture)
    ELSE DefaultMoisture

\* Variant: the range taken without its end points.
TempSuitableExclusive(crop, current_temp) ==
    crop.temp_min < current_temp /\ current_temp < crop.temp_max

\* temp_min <= current_temp <= temp_max
TempSuitable(crop, current_temp) ==
    crop.temp_min <= current_temp /\ current_temp <= crop.temp_max

\* The if / elif on moisture_req.
MoistureSuitable(crop, soil_moisture) ==
    \/ crop.moisture_req = "high" /\ soil_moisture > HighMoisture
    \/ /\ crop.moisture_req = "medium"
       /\ MediumMoistureLow <= soil_moisture /\ soil_moisture <= MediumMoistureHigh

\* The confidence of one crop before the cap.
Confidence(crop, current_temp, soil_moisture) ==
    BaseConfidence
    + (IF TempSuitable(crop, current_temp) THEN TempBonus ELSE 0)
    + (IF MoistureSuitable(crop, soil_moisture) THEN MoistureBonus ELSE 0)

\* The reasons list of one crop.
Reasons(crop, current_temp, soil_moisture) ==
    (IF TempSuitable(crop, current_temp) THEN <<"temperature ideal">> ELSE <<>>)
    \o (IF crop.moisture_req = "high" /\ soil_moisture > HighMoisture
        THEN <<"high soil moisture">>
        ELSE IF MoistureSuitable(crop, soil_moisture)
             THEN <<"moderate soil moisture">> ELSE <<>>)

\* CropRecommendation(crop_name=..., confidence_score=min(confidence, 1.0), ...)
CropRecommendation(crop, current_temp, soil_moisture) ==
    [crop_name |-> crop.name,
     confidence_score |-> Min(Confidence(crop, current_temp, soil_moisture),
                              MaxConfidence),
     yield_forecast |-> crop.yield_per_acre,
     profit_estimate |-> crop.yield_per_acre * crop.price_per_kg,
     reasons |-> Reasons(crop, current_temp, soil_moisture),
     growing_season |-> crop.season,
     water_requirement |-> crop.moisture_req,
     soil_suitability |-> "Suitable"]

\* The loop over crops_db: the crops with confidence > 0.6, in table order.
RECURSIVE Candidates(_, _, _)
Candidates(n, current_temp, soil_moisture) ==
    IF n = 0 THEN <<>>
    ELSE Candidates(n - 1, current_temp, soil_moisture)
         \o (IF Confidence(crops_db[n], current_temp, soil_moisture) > MinConfidence
             THEN <<CropRecommendation(crops_db[n], current_temp, soil_moisture)>>
             ELSE <<>>)

\* list.sort(key=confidence_score, reverse=True): stable, so recommendations
\* of equal score keep their order.
RECURSIVE SortByConfidence(_)
SortByConfidence(recs) ==
    IF recs = <<>> THEN <<>>
    ELSE LET sorted == SortByConfidence(SubSeq(recs, 1, Len(recs) - 1))
             x == recs[Len(recs)]
             k == Cardinality({i \in 1..Len(sorted) :
                                sorted[i].confidence_score >= x.confidence_score})
         IN  SubSeq(sorted, 1, k) \o <<x>> \o SubSeq(sorted, k + 1, Len(sorted))

\* generate_crop_recommendations(weather_data, soil_data, location)
generate_crop_recommendations(weather_data, soil_data) ==
    LET t == CurrentTemp(weather_data)
    IN  IF t.raised THEN Raised
        ELSE Returned(Prefix(SortByConfidence(
                 Candidates(Len(crops_db), t.value, SoilMoisture(soil_data))), TopN))

\* The arguments generate_crop_recommendations is applied to: what the two
\* providers can return, a first day with each temperature around the crops'
\* ranges, a first day without a temperature, an empty list of days, and a
\* soil reading with each moisture around the bands.
Temps == 14..36
Moistures == {10, 15, 20, 30, 31, 40, 41}

WeatherArgs ==
    WeatherResponses
    \cup {[days |-> <<[temp |-> t]>>] : t \in Temps}
    \cup {[days |-> <<[humidity |-> 40]>>], [days |-> <<>>]}

SoilArgs == SoilResponses \cup {[moisture |-> m] : m \in Moistures}

\* ------------------------------------------------------------ the handlers
\* `except Exception` around each handler body: an HTTPException raised in
\* the try block is an Exception, so it is caught and re-raised as a 500.
ExceptException(status) == StatusServerError

\* The outcome of `raise HTTPException(status_code=404, ...)` at the end of
\* the try block.
RaiseNotFound == [status |-> ExceptException(StatusNotFound), body |-> <<>>]

\* `return doc`
Return(doc) == [status |-> 200, body |-> <<doc>>]

NoResult == [status |-> 0, body |-> <<>>]

\* A request slot.  utcnow is the handler's latest datetime.utcnow(); fetches
\* counts its calls of the provider.
IdleReq ==
    [kind |-> "weather", key |-> "", pc |-> "idle", utcnow |-> 0,
     fetches |-> 0, resp |-> EmptyDict, doc |-> <<>>, result |-> NoResult]

VARIABLES
    dataset,  \* the dataset this run's requests are for
    now,      \* the clock, in hours
    db,       \* db.weather and db.soil
    req       \* the requests in flight

vars == <<dataset, now, db, req>>

Init ==
    /\ dataset \in Kinds
    /\ now = 0
    /\ db = [weather |-> <<>>, soil |-> <<>>]
    /\ req = [r \in Reqs |-> IdleReq]

\* Variant: a hit also stamps the cached record with the time of the read.
FindTouch(r, kind, key) ==
    /\ req[r].pc = "idle"
    /\ LET q == [IdleReq EXCEPT !.kind = kind, !.key = key, !.utcnow = now]
           cached == FindOne(db[kind], kind, key, now - TTL(kind))
       IN  IF cached # <<>>
           THEN /\ req' = [req EXCEPT ![r] =
                            [q EXCEPT !.pc = "done", !.result = Return(cached[1])]]
                /\ db' = [db EXCEPT ![kind] =
                            ReplaceOneUpsert(db[kind], kind, key,
                                             [cached[1] EXCEPT !.updated_at = now])]
           ELSE /\ req' = [req EXCEPT ![r] =
                            [q EXCEPT !.pc = "fetching", !.fetches = q.fetches + 1]]
                /\ db' = db
    /\ UNCHANGED <<dataset, now>>

\* A request arrives and the handler queries the cache with the filter built
\* from the clock: a hit is returned as it is; on a miss the handler calls
\* the provider.
Find(r, kind, key) ==
    /\ req[r].pc = "idle"
    /\ LET q == [IdleReq EXCEPT !.kind = kind, !.key = key, !.utcnow = now]
           cached == FindOne(db[kind], kind, key, now - TTL(kind))
       IN  req' = [req EXCEPT ![r] =
                     IF cached # <<>>
                     THEN [q EXCEPT !.pc = "done", !.result = Return(cached[1])]
                     ELSE [q EXCEPT !.pc = "fetching", !.fetches = q.fetches + 1]]
    /\ UNCHANGED <<dataset, now, db>>

\* Variant: when the provider yields nothing, a record found under the key,
\* however old, is returned in place of the error.
FetchReturnStaleFallback(r, data) ==
    /\ req[r].pc = "fetching"
    /\ LET q == req[r]
           old == FindOneNoFilter(db[q.kind], q.kind, q.key, 0)
       IN  req' = [req EXCEPT ![r] =
                     IF Truthy(data)
                     THEN [q EXCEPT !.resp = data, !.pc = "writing", !.utcnow = now,
                                    !.doc = <<BuildDoc(q.kind, q.key, data, now)>>]
                     ELSE [q EXCEPT !.resp = data, !.pc = "done",
                                    !.result = IF old = <<>> THEN RaiseNotFound
                                               ELSE Return(old[1])]]
    /\ UNCHANGED <<dataset, now, db>>

\* The provider call returns; a non-empty answer is made into a record
\* (stamped with the clock), an empty one raises the 404.
FetchReturn(r, data) ==
    /\ req[r].pc = "fetching"
    /\ LET q == req[r]
       IN  req' = [req EXCEPT ![r] =
                     IF Truthy(data)
                     THEN [q EXCEPT !.resp = data, !.pc = "writing", !.utcnow = now,
                                    !.doc = <<BuildDoc(q.kind, q.key, data, now)>>]
                     ELSE [q EXCEPT !.resp = data, !.pc = "done",
                                    !.result = RaiseNotFound]]
    /\ UNCHANGED <<dataset, now, db>>

\* replace_one is applied and the handler returns the record it built.
Write(r) ==
    /\ req[r].pc = "writing"
    /\ LET q == req[r]
       IN  /\ db' = [db EXCEPT ![q.kind] =
                       ReplaceOneUpsert(db[q.kind], q.kind, q.key, q.doc[1])]
           /\ req' = [req EXCEPT ![r] = [q EXCEPT !.pc = "done",
                                                  !.result = Return(q.doc[1])]]
    /\ UNCHANGED <<dataset, now>>

\* The response is sent; the slot is free for the next request.
Respond(r) ==
    /\ req[r].pc = "done"
    /\ req' = [req EXCEPT ![r] = IdleReq]
    /\ UNCHANGED <<dataset, now, db>>

\* Time passes.
Tick ==
    /\ \E t \in Instants(dataset) : t > now /\ now' = t
    /\ UNCHANGED <<dataset, db, req>>

Next ==
    \/ \E r \in Reqs : \E key \in Keys(dataset) : Find(r, dataset, key)
    \/ \E r \in Reqs : \E data \in Responses(req[r].kind) : FetchReturn(r, data)
    \/ \E r \in Reqs : Write(r)
    \/ \E r \in Reqs : Respond(r)
    \/ Tick

Spec == Init /\ [][Next]_vars

\* ------------------------------------------- generate_crop_recommendations
\* The function applied to bounded arguments: a slot keeps the arguments of
\* a call (resp, doc) and its outcome (result).
InitCrop ==
    /\ dataset = "crops"
    /\ now = 0
    /\ db = [weather |-> <<>>, soil |-> <<>>]
    /\ req = [r \in Reqs |-> IdleReq]

Generate(r, weather_data, soil_data) ==
    /\ req[r].pc = "idle"
    /\ req' = [req EXCEPT ![r] =
                 [IdleReq EXCEPT !.kind = "crops", !.pc = "done",
                                 !.resp = weather_data, !.doc = <<soil_data>>,
                                 !.result = generate_crop_recommendations(
                                                weather_data, soil_data)]]
    /\ UNCHANGED <<dataset, now, db>>

NextCrop ==
    \/ \E r \in Reqs : \E weather_data \in WeatherArgs : \E soil_data \in SoilArgs :
          Generate(r, weather_data, soil_data)
    \/ \E r \in Reqs : Respond(r)

SpecCrop == InitCrop /\ [][NextCrop]_vars

\* ------------------------------------------------ get_crop_recommendations
\* What fetch_weather_data can return to the recommendations handler: as
\* for get_weather, and a provider answer whose "days" is an empty list.
RecWeatherResponses == WeatherResponses \cup {[days |-> <<>>]}

\* polygon_id: Optional[str] = None; None and "" are both falsy.
NoPolygon == ""

\* A cached weather record and a cached soil record, as get_weather and
\* get_soil_data leave them.
CachedWeather ==
    WeatherDoc("Delhi",
               [currentConditions |-> [temp |-> 28, humidity |-> 40],
                days |-> <<[temp |-> 25]>>], 0)
CachedSoil == SoilDoc("poly123", [t0 |-> 29515, t10 |-> 29015, moisture |-> 35], 0)

\* A recommendations request at its first await.  fetches counts the calls
\* of fetch_weather_data, soil_fetches those of fetch_soil_data.
RecReq(city, polygon_id) ==
    [kind |-> "recommendations", key |-> city, polygon_id |-> polygon_id,
     pc |-> "weather", utcnow |-> 0, fetches |-> 1, soil_fetches |-> 0,
     resp |-> EmptyDict, soil |-> EmptyDict, doc |-> <<>>, result |-> NoResult]

\* The document inserted into db.recommendations.
RecDoc(city, polygon_id, recommendations, utcnow) ==
    [city |-> city, polygon_id |-> polygon_id,
     recommendations |-> recommendations, created_at |-> utcnow]

\* The number of requests that have yet to insert their record.
InFlight == Cardinality({r \in Reqs : req[r].pc \notin {"idle", "done"}})

InitRec ==
    /\ dataset = "recommendations"
    /\ now = 0
    /\ db \in { [weather |-> <<>>, soil |-> <<>>, recommendations |-> <<>>],
                 [weather |-> <<CachedWeather>>, soil |-> <<CachedSoil>>,
                  recommendations |-> <<>>] }
    /\ req = [r \in Reqs |-> IdleReq]

\* The request arrives and the handler awaits fetch_weather_data(city).
GetCropRecommendations(r, city, polygon_id) ==
    /\ req[r].pc = "idle"
    /\ Len(db.recommendations) + InFlight < MaxRecs
    /\ req' = [req EXCEPT ![r] = RecReq(city, polygon_id)]
    /\ UNCHANGED <<dataset, now, db>>

\* generate_crop_recommendations is called; an exception it raises is caught
\* by `except Exception` and answered with 500.
Recommend(q, weather_data, soil_data) ==
    LET out == generate_crop_recommendations(weather_data, soil_data)
    IN  IF out.raised
        THEN [q EXCEPT !.pc = "done", !.resp = weather_data, !.soil = soil_data,
                       !.result = [status |-> StatusServerError, body |-> <<>>]]
        ELSE [q EXCEPT !.pc = "inserting", !.resp = weather_data,
                       !.soil = soil_data, !.doc = <<out.value>>]

\* fetch_weather_data returns; with a polygon_id the handler awaits
\* fetch_soil_data, without one soil_data stays {}.
RecWeatherReturn(r, weather_data) ==
    /\ req[r].pc = "weather"
    /\ req' = [req EXCEPT ![r] =
                 IF req[r].polygon_id # NoPolygon
                 THEN [@ EXCEPT !.pc = "soil", !.resp = weather_data,
                                !.soil_fetches = @ + 1]
                 ELSE Recommend(@, weather_data, EmptyDict)]
    /\ UNCHANGED <<dataset, now, db>>

\* fetch_soil_data returns.
RecSoilReturn(r, soil_data) ==
    /\ req[r].pc = "soil"
    /\ req' = [req EXCEPT ![r] = Recommend(@, req[r].resp, soil_data)]
    /\ UNCHANGED <<dataset, now, db>>

\* Variant: the handler also stores the weather it fetched in the cache.
RecInsertCaching(r) ==
    /\ req[r].pc = "inserting"
    /\ db' = [db EXCEPT
                !.recommendations =
                    Append(@, RecDoc(req[r].key, req[r].polygon_id, req[r].doc[1], now)),
                !.weather = ReplaceOneUpsert(@, "weather", req[r].key,
                                WeatherDoc(req[r].key, req[r].resp, now))]
    /\ req' = [req EXCEPT ![r] =
                 [@ EXCEPT !.pc = "done", !.utcnow = now,
                           !.result = Return([recommendations |-> req[r].doc[1]])]]
    /\ UNCHANGED <<dataset, now>>

\* db.recommendations.insert_one(...) and the return.  The handler reads the
\* clock only to stamp created_at, so the runs of SpecRec keep the clock still.
RecInsert(r) ==
    /\ req[r].pc = "inserting"
    /\ db' = [db EXCEPT
                !.recommendations =
                    Append(@, RecDoc(req[r].key, req[r].polygon_id, req[r].doc[1], now))]
    /\ req' = [req EXCEPT ![r] =
                 [@ EXCEPT !.pc = "done", !.utcnow = now,
                           !.result = Return([recommendations |-> req[r].doc[1]])]]
    /\ UNCHANGED <<dataset, now>>

NextRec ==
    \/ \E r \in Reqs : \E polygon_id \in {NoPolygon, "poly123"} :
          GetCropRecommendations(r, "Delhi", polygon_id)
    \/ \E r \in Reqs : \E weather_data \in RecWeatherResponses :
          RecWeatherReturn(r, weather_data)
    \/ \E r \in Reqs : \E soil_data \in SoilResponses : RecSoilReturn(r, soil_data)
    \/ \E r \in Reqs : RecInsert(r)
    \/ \E r \in Reqs : Respond(r)

SpecRec == InitRec /\ [][NextRec]_vars

\* ------------------------------------------------------- get_market_prices
\* The crops list of generate_mock_market_prices.
mock_crops ==
    << [name |-> "Rice", price |-> 25, trend |-> "stable"],
       [name |-> "Wheat", price |-> 22, trend |-> "rising"],
       [name |-> "Cotton", price |-> 45, trend |-> "falling"],
       [name |-> "Sugarcane", price |-> 3, trend |-> "stable"],
       [name |-> "Maize", price |-> 18, trend |-> "rising"],
       [name |-> "Onion", price |-> 15, trend |-> "rising"],
       [name |-> "Potato", price |-> 12, trend |-> "stable"],
       [name |-> "Tomato", price |-> 20, trend |-> "falling"] >>

\* MarketPrice(crop_name=..., price_per_kg=..., market_name="Local Mandi",
\* price_trend=...) with updated_at from default_factory=datetime.utcnow.
MarketPrice(crop, utcnow) ==
    [crop_name |-> crop.name, price_per_kg |-> crop.price,
     market_name |-> "Local Mandi", price_trend |-> crop.trend,
     updated_at |-> utcnow]

generate_mock_market_prices(utcnow) ==
    [i \in 1..Len(mock_crops) |-> MarketPrice(mock_crops[i], utcnow)]

InitMarket ==
    /\ dataset = "market"
    /\ now = 0
    /\ db = [market_prices |-> <<>>]
    /\ req = [r \in Reqs |-> IdleReq]

\* The request arrives; the prices are generated and the handler awaits
\* delete_many.
GetMarketPrices(r) ==
    /\ req[r].pc = "idle"
    /\ req' = [req EXCEPT ![r] =
                 [IdleReq EXCEPT !.kind = "market", !.pc = "deleting",
                                 !.utcnow = now,
                                 !.doc = generate_mock_market_prices(now)]]
    /\ UNCHANGED <<dataset, now, db>>

\* db.market_prices.delete_many({}) is applied; the handler awaits
\* insert_many.
DeleteMany(r) ==
    /\ req[r].pc = "deleting"
    /\ db' = [db EXCEPT !.market_prices = <<>>]
    /\ req' = [req EXCEPT ![r].pc = "inserting"]
    /\ UNCHANGED <<dataset, now>>

\* db.market_prices.insert_many(...) is applied and the handler returns.
InsertMany(r) ==
    /\ req[r].pc = "inserting"
    /\ db' = [db EXCEPT !.market_prices = @ \o req[r].doc]
    /\ req' = [req EXCEPT ![r] =
                 [@ EXCEPT !.pc = "done",
                           !.result = Return([prices |-> req[r].doc])]]
    /\ UNCHANGED <<dataset, now>>

NextMarket ==
    \/ \E r \in Reqs : GetMarketPrices(r)
    \/ \E r \in Reqs : DeleteMany(r)
    \/ \E r \in Reqs : InsertMany(r)
    \/ \E r \in Reqs : Respond(r)
    \/ Tick

SpecMarket == InitMarket /\ [][NextMarket]_vars

\* ---------------------------------------------------------- create_polygon
\* What create_agro_polygon can return: {} on any error (the except branch),
\* else the service's JSON, which may lack id, area or center.
AgroResponses ==
    { EmptyDict,
      [id |-> "agro1", area |-> 12, center |-> <<77, 28>>],
      [area |-> 5] }

\* The values of str(uuid.uuid4()).
Uuids == {"uuid1", "uuid2"}

\* The request bodies: PolygonCreate(name, coordinates, farmer_id).
PolygonCreates ==
    { [name |-> n, coordinates |-> <<<<<<77, 28>>, <<78, 28>>, <<78, 29>>>>>>,
       farmer_id |-> "farmer1"] : n \in {"North Field", "South Field"} }

\* Polygon(id=..., name=..., coordinates=..., farmer_id=..., area=...,
\* center=...) with created_at from default_factory=datetime.utcnow.
Polygon(polygon_data, agro_response, uuid, utcnow) ==
    [id |-> Get(agro_response, "id", uuid),
     name |-> polygon_data.name,
     coordinates |-> polygon_data.coordinates,
     farmer_id |-> polygon_data.farmer_id,
     area |-> Get(agro_response, "area", 0),
     center |-> Get(agro_response, "center", <<0, 0>>),
     created_at |-> utcnow]

InitPolygons ==
    /\ dataset = "polygons"
    /\ now = 0
    /\ db = [polygons |-> <<>>]
    /\ req = [r \in Reqs |-> IdleReq]

\* The request arrives and the handler awaits create_agro_polygon.
CreatePolygon(r, polygon_data) ==
    /\ req[r].pc = "idle"
    /\ Len(db.polygons) + InFlight < MaxRecs
    /\ req' = [req EXCEPT ![r] =
                 [IdleReq EXCEPT !.kind = "polygons", !.key = polygon_data.name,
                                 !.pc = "creating", !.fetches = 1,
                                 !.doc = <<polygon_data>>]]
    /\ UNCHANGED <<dataset, now, db>>

\* create_agro_polygon returns: on a falsy answer HTTPException(400) is
\* raised inside the try block, and caught by `except Exception`; otherwise
\* the Polygon is built and the handler awaits insert_one.
AgroReturn(r, agro_response, uuid) ==
    /\ req[r].pc = "creating"
    /\ req' = [req EXCEPT ![r] =
                 IF ~Truthy(agro_response)
                 THEN [@ EXCEPT !.pc = "done", !.resp = agro_response,
                                !.result = [status |-> ExceptException(StatusBadRequest),
                                            body |-> <<>>]]
                 ELSE [@ EXCEPT !.pc = "inserting", !.resp = agro_response,
                                !.utcnow = now,
                                !.doc = <<Polygon(req[r].doc[1], agro_response,
                                                  uuid, now)>>]]
    /\ UNCHANGED <<dataset, now, db>>

\* db.polygons.insert_one(polygon.dict()) is applied and the handler returns.
PolygonInsert(r) ==
    /\ req[r].pc = "inserting"
    /\ db' = [db EXCEPT !.polygons = Append(@, req[r].doc[1])]
    /\ req' = [req EXCEPT ![r] =
                 [@ EXCEPT !.pc = "done", !.result = Return(req[r].doc[1])]]
    /\ UNCHANGED <<dataset, now>>

NextPolygons ==
    \/ \E r \in Reqs : \E polygon_data \in PolygonCreates : CreatePolygon(r, polygon_data)
    \/ \E r \in Reqs : \E agro_response \in AgroResponses : \E uuid \in Uuids :
          AgroReturn(r, agro_response, uuid)
    \/ \E r \in Reqs : PolygonInsert(r)
    \/ \E r \in Reqs : Respond(r)
    \/ Tick

SpecPolygons == InitPolygons /\ [][NextPolygons]_vars

\* ------------------------------------------------------------ the claims
\* The freshness windows as the specification states them: 1 hour for
\* weather, 6 hours for soil.
Window(kind) == IF kind = "weather" THEN WeatherTTL ELSE SoilTTL

\* The documents stored under a key.
Stored(d, kind, key) == {d[kind][i] : i \in Matching(d[kind], kind, key)}

\* Request r starts in this step: its cache query is made at time now.
Reads(r) == req[r].pc = "idle" /\ req'[r].pc # "idle"

\* The provider was called for q and yielded nothing.
FetchFailed(q) ==
    q.pc \in {"writing", "done"} /\ q.fetches > 0 /\ ~(DOMAIN q.resp # {})

\* C1 (freshness): a read made at t1 of a key whose record was upserted at
\* t0 with t1 - t0 < ttl calls no provider and returns exactly that record.
C1_Freshness ==
    [][\A r \in Reqs : Reads(r) =>
         LET q == req'[r]
         IN  \A d \in Stored(db, q.kind, q.key) :
                now - d.updated_at < Window(q.kind) =>
                    /\ q.pc = "done"
                    /\ q.fetches = 0
                    /\ q.result = [status |-> 200, body |-> <<d>>]]_vars

\* A read answered from a record that is older than the read yet inside the
\* window.
C1_Witness ==
    \E r \in Reqs :
        /\ req[r].pc = "done" /\ req[r].fetches = 0 /\ req[r].result.status = 200
        /\ req[r].result.body[1].updated_at < req[r].utcnow
        /\ req[r].utcnow - req[r].result.body[1].updated_at < Window(req[r].kind)

C3_NoWriteOnFailure ==
    [][\A r \in Reqs :
         (req'[r] # req[r] /\ (FetchFailed(req[r]) \/ FetchFailed(req'[r])))
         => db' = db]_vars

\* A read of a key with a stale soil record has failed, and the record is
\* still there.
C3_Witness ==
    \E r \in Reqs :
        /\ req[r].kind = "soil" /\ req[r].pc = "done" /\ FetchFailed(req[r])
        /\ \E d \in Stored(db, "soil", req[r].key) :
               req[r].utcnow - d.updated_at > SoilTTL

\* C4 (at most one record per key): the weather collection holds at most
\* one record per city and the soil collection at most one per polygon id.
C4_OneRecordPerKey ==
    /\ \A c \in Cities : Cardinality(Matching(db.weather, "weather", c)) <= 1
    /\ \A p \in Polygons : Cardinality(Matching(db.soil, "soil", p)) <= 1

\* Two concurrent misses of one city have both upserted, with the other
\* city's record in the collection as well.
C4_Witness ==
    /\ Len(db.weather) = 2
    /\ \E r, o \in Reqs :
          /\ r # o /\ req[r].key = req[o].key
          /\ \A x \in {r, o} :
                /\ req[x].kind = "weather" /\ req[x].pc = "done"
                /\ req[x].fetches = 1 /\ req[x].result.status = 200

\* C5 as claimed (updated_at monotonicity): in every step, of every
\* interleaving, the updated_at stored under a key does not decrease.
C5_AsClaimed ==
    [][\A kind \in Kinds : \A key \in Keys(kind) :
         \A old \in Stored(db, kind, key) : \A new \in Stored(db', kind, key) :
            new.updated_at >= old.updated_at]_vars

\* C6 as claimed (not-found status): a read whose provider call yielded no
\* data answers 404.
C6_AsClaimed ==
    \A r \in Reqs :
        (req[r].pc = "done" /\ FetchFailed(req[r]))
        => req[r].result.status = StatusNotFound

\* The fields a provider answer is expected to carry.
ExpectedFields(kind) ==
    IF kind = "weather" THEN {"currentConditions", "days"}
    ELSE {"t0", "t10", "moisture"}

\* A non-empty answer that lacks an expected field.
Partial(kind, data) ==
    DOMAIN data # {} /\ ~(ExpectedFields(kind) \subseteq DOMAIN data)

\* C7 as claimed (no success from partial data): a read whose provider
\* answer is partial builds no record to store and reports no success.
C7_AsClaimed ==
    \A r \in Reqs :
        (req[r].pc # "idle" /\ Partial(req[r].kind, req[r].resp))
        => (req[r].doc = <<>> /\ req[r].result.status # 200)

\* C8 (full replace on refresh): when a read that missed the cache writes,
\* the key's stored record is afterwards exactly the record this read built
\* from the provider's answer, stamped with the clock reading this read took
\* when it built it; nothing of the record stored before is left, and the
\* read returns that record.
C8_FullReplace ==
    [][\A r \in Reqs :
         (req[r].pc = "writing" /\ req'[r].pc = "done") =>
            LET q == req[r]
                res == req'[r].result
            IN  /\ res.status = 200 /\ res.body = q.doc
                /\ Stored(db', q.kind, q.key) = {q.doc[1]}
                /\ \A d \in Stored(db', q.kind, q.key) :
                      /\ d[KeyField(q.kind)] = q.key
                      /\ d.updated_at = q.utcnow
                      /\ q.kind = "weather" =>
                            DOMAIN d.current \subseteq
                              DOMAIN Get(q.resp, "currentConditions", EmptyDict)]_vars

\* A refresh has replaced a record that another read, still holding it, got
\* from the cache; the old record had fields the new one lacks.
C8_Witness ==
    \E r, o \in Reqs :
        /\ req[r].kind = "weather" /\ req[o].kind = "weather"
        /\ req[r].key = req[o].key
        /\ req[o].pc = "done" /\ req[o].fetches = 0 /\ req[o].result.status = 200
        /\ req[r].pc = "done" /\ req[r].fetches = 1 /\ req[r].result.status = 200
        /\ req[o].result.body[1].updated_at < req[r].result.body[1].updated_at
        /\ DOMAIN req[o].result.body[1].current
             \ DOMAIN req[r].result.body[1].current # {}
        /\ Stored(db, "weather", req[r].key) = {req[r].result.body[1]}

\* C9 (no stale fallback): a read whose provider call yielded nothing
\* returns no payload; its outcome is the error a read of a key with no
\* record gets, whether or not a stale record is stored.
C9_NoStaleFallback ==
    \A r \in Reqs :
        (req[r].pc = "done" /\ FetchFailed(req[r]))
        => req[r].result = [status |-> StatusServerError, body |-> <<>>]

\* A weather read has failed while a stale record of its city is stored.
C9_Witness ==
    \E r \in Reqs :
        /\ req[r].kind = "weather" /\ req[r].pc = "done" /\ FetchFailed(req[r])
        /\ req[r].result.status # 200
        /\ \E d \in Stored(db, "weather", req[r].key) :
               req[r].utcnow - d.updated_at > WeatherTTL

\* C10 (bounded staleness of successes): the record a successful read
\* returns is at most ttl older than the clock reading the read took (for
\* its cache query on a hit, for the record it built on a fetch).
C10_BoundedStaleness ==
    \A r \in Reqs :
        (req[r].pc = "done" /\ req[r].result.status = 200) =>
            /\ req[r].utcnow - req[r].result.body[1].updated_at <= Window(req[r].kind)
            /\ req[r].result.body[1].updated_at <= req[r].utcnow

\* Successful reads on both paths: a hit on a record at the end of its
\* window, and a fetch.
C10_Witness ==
    \E r, o \in Reqs :
        /\ req[r].pc = "done" /\ req[r].result.status = 200 /\ req[r].fetches = 0
        /\ req[r].utcnow - req[r].result.body[1].updated_at = Window(req[r].kind)
        /\ req[o].pc = "done" /\ req[o].result.status = 200 /\ req[o].fetches = 1

\* The read q fetched and wrote: it ended with a successful refresh.
Refreshed(q) ==
    q.pc = "done" /\ q.fetches = 1 /\ q.result.status = 200

\* C11 (idempotence of refresh): when a read starts after another read of
\* the same key has completed a successful refresh, less than ttl after it
\* and with that read's record still the stored one, it is a cache hit that
\* returns the same payload, so the two reads make one provider call in
\* total.
C11_Idempotence ==
    [][\A r, o \in Reqs :
         (/\ Reads(r) /\ r # o /\ Refreshed(req[o])
          /\ req'[r].kind = req[o].kind /\ req'[r].key = req[o].key
          /\ Stored(db, req[o].kind, req[o].key) = {req[o].result.body[1]}
          /\ now - req[o].utcnow < Window(req[o].kind))
         => /\ req'[r].pc = "done"
            /\ req'[r].result = req[o].result
            /\ req'[r].fetches + req[o].fetches = 1]_vars

\* A soil read was served, an hour after a refresh of the same polygon, the
\* record that refresh stored.
C11_Witness ==
    \E r, o \in Reqs :
        /\ r # o /\ Refreshed(req[o]) /\ req[o].kind = "soil"
        /\ req[r].kind = "soil" /\ req[r].key = req[o].key
        /\ req[r].pc = "done" /\ req[r].fetches = 0
        /\ req[r].result = req[o].result
        /\ req[r].utcnow > req[o].utcnow

\* C12 (concurrent misses, last writer wins): when a read writes after
\* another read of the same key, which missed the cache as well, has
\* written, the collection holds exactly one record for the key, and it is
\* the whole record of the read that wrote last, payload and updated_at.
C12_LastWriterWins ==
    [][\A r, o \in Reqs :
         (/\ r # o /\ req[r].pc = "writing" /\ req'[r].pc = "done"
          /\ Refreshed(req[o])
          /\ req[o].kind = req[r].kind /\ req[o].key = req[r].key)
         => /\ Cardinality(Matching(db'[req[r].kind], req[r].kind, req[r].key)) = 1
            /\ \A d \in Stored(db', req[r].kind, req[r].key) :
                  d = req[r].doc[1]]_vars

\* Two reads of one city both missed and both wrote; the stored record is
\* the one written last, which carries the earlier updated_at.
C12_Witness ==
    \E r, o \in Reqs :
        /\ r # o /\ Refreshed(req[r]) /\ Refreshed(req[o])
        /\ req[r].kind = "weather" /\ req[o].kind = "weather"
        /\ req[r].key = req[o].key
        /\ req[r].doc[1].updated_at < req[o].doc[1].updated_at
        /\ req[r].doc[1].current # req[o].doc[1].current
        /\ Stored(db, "weather", req[r].key) = {req[r].doc[1]}

\* C13 (no write on cache hit): a step of a read that is answered from the
\* cache leaves the whole store unchanged.
C13_NoWriteOnHit ==
    [][\A r \in Reqs :
         (/\ req'[r] # req[r]
          /\ \/ req'[r].pc = "done" /\ req'[r].fetches = 0
             \/ req[r].pc = "done" /\ req[r].fetches = 0)
         => db' = db]_vars

\* A weather read was answered from a record at the very end of its window,
\* and the record is stored as it was.
C13_Witness ==
    \E r \in Reqs :
        /\ req[r].kind = "weather" /\ req[r].pc = "done" /\ req[r].fetches = 0
        /\ req[r].result.status = 200
        /\ req[r].utcnow - req[r].result.body[1].updated_at = WeatherTTL
        /\ Stored(db, "weather", req[r].key) = {req[r].result.body[1]}

\* C14 (record lifecycle): a record appears under a key only in the write
\* step of a read of that key whose provider call succeeded, every such
\* write step leaves a record under the key, and a key that has a record
\* has one in every later state.
C14_Lifecycle ==
    [][\A kind \in Kinds : \A key \in Keys(kind) :
         /\ (Stored(db, kind, key) = {} /\ Stored(db', kind, key) # {})
            => \E r \in Reqs :
                  /\ req[r].kind = kind /\ req[r].key = key
                  /\ req[r].pc = "writing" /\ req'[r].pc = "done"
                  /\ req[r].fetches = 1 /\ DOMAIN req[r].resp # {}
         /\ (\E r \in Reqs :
               /\ req[r].kind = kind /\ req[r].key = key
               /\ req[r].pc = "writing" /\ req'[r].pc = "done")
            => Stored(db', kind, key) # {}
         /\ Stored(db, kind, key) # {} => Stored(db', kind, key) # {}]_vars

\* A polygon's record outlived its window and a failed refresh, while the
\* other polygon, whose only read failed, has none.
C14_Witness ==
    \E r, o \in Reqs :
        /\ r # o /\ req[r].kind = "soil" /\ req[o].kind = "soil"
        /\ req[r].key # req[o].key
        /\ req[r].pc = "done" /\ FetchFailed(req[r])
        /\ req[o].pc = "done" /\ FetchFailed(req[o])
        /\ Stored(db, "soil", req[o].key) = {}
        /\ \E d \in Stored(db, "soil", req[r].key) :
               req[r].utcnow - d.updated_at > SoilTTL

\* C20 (key and collection isolation): a step of a read of key k of one
\* dataset leaves the documents, and their order, of every other key of
\* that collection and every other collection as they were.
C20_Isolation ==
    [][\A r \in Reqs :
         req'[r] # req[r] =>
            LET q == IF req[r].pc = "idle" THEN req'[r] ELSE req[r]
                others(coll) ==
                    [i \in {j \in 1..Len(coll) : coll[j][KeyField(q.kind)] # q.key}
                       |-> coll[i]]
            IN  /\ \A c \in DOMAIN db \ {q.kind} : db'[c] = db[c]
                /\ DOMAIN db' = DOMAIN db
                /\ others(db'[q.kind]) = others(db[q.kind])]_vars

\* A refresh of one city has replaced its record while the other city's
\* older record is stored before it in the collection.
C20_Witness ==
    \E r \in Reqs :
        /\ req[r].kind = "weather" /\ Refreshed(req[r])
        /\ Len(db.weather) = 2
        /\ db.weather[1].city # req[r].key
        /\ db.weather[1].updated_at < req[r].doc[1].updated_at
        /\ db.weather[2] = req[r].doc[1]


\* A call of generate_crop_recommendations whose arguments carry a
\* temperature for the first day and a soil moisture.
Scored(q) ==
    /\ q.pc = "done" /\ q.kind = "crops"
    /\ "days" \in DOMAIN q.resp /\ Len(q.resp.days) > 0
    /\ "temp" \in DOMAIN q.resp.days[1]
    /\ "moisture" \in DOMAIN q.doc[1]

\* C15: for every temperature and soil moisture, generate_crop_recommendations
\* returns a non-empty list of at most 5 recommendations in non-increasing
\* order of confidence_score, and the score of each is 0.7, plus 0.2 if the
\* temperature lies in the crop's inclusive range, plus 0.1 if the moisture
\* lies in the crop's band (high: > 0.3; medium: 0.15 to 0.4 inclusive),
\* capped at 1.0 (scores and moistures in hundredths).
C15_ListShape ==
    \A r \in Reqs :
      Scored(req[r]) =>
        LET t == req[r].resp.days[1].temp
            m == req[r].doc[1].moisture
            out == req[r].result
            list == out.value
        IN  /\ ~out.raised
            /\ Len(list) >= 1 /\ Len(list) <= 5
            /\ \A i \in 1..(Len(list) - 1) :
                 list[i].confidence_score >= list[i + 1].confidence_score
            /\ \A i \in 1..Len(list) :
                 \E j \in 1..Len(crops_db) :
                   LET c == crops_db[j]
                       inRange == c.temp_min <= t /\ t <= c.temp_max
                       inBand == \/ c.moisture_req = "high" /\ m > 30
                                 \/ c.moisture_req = "medium" /\ 15 <= m /\ m <= 40
                       score == 70 + (IF inRange THEN 20 ELSE 0)
                                   + (IF inBand THEN 10 ELSE 0)
                   IN  /\ list[i].crop_name = c.name
                       /\ list[i].confidence_score = IF score > 100 THEN 100 ELSE score

\* A call at the upper end of Rice's range with moisture above 0.3: Rice
\* gets both increments and comes first, before crops out of their range.
C15_Witness ==
    \E r \in Reqs :
      /\ Scored(req[r])
      /\ req[r].resp.days[1].temp = 35 /\ req[r].doc[1].moisture = 31
      /\ req[r].result.value[1].crop_name = "Rice"
      /\ req[r].result.value[1].confidence_score = 100
      /\ req[r].result.value[5].confidence_score = 80


\* A finished recommendations request.
RecDone(q) == q.kind = "recommendations" /\ q.pc = "done"

\* The weather data has no temperature for a first day; the soil data has no
\* moisture.
NoTemp(weather_data) ==
    \/ "days" \notin DOMAIN weather_data
    \/ Len(weather_data.days) = 0
    \/ "temp" \notin DOMAIN weather_data.days[1]
NoMoisture(soil_data) == "moisture" \notin DOMAIN soil_data

\* C16 as stated: whenever weather or soil data is missing for a
\* recommendations request (the provider call failed, the weather response
\* has no daily entries, or the entry or soil reading lacks its value),
\* get_crop_recommendations answers 200 with the recommendations for the
\* default temperature 25 and the default moisture 0.2 in place of what is
\* missing.
C16_AsClaimed ==
    \A r \in Reqs :
      (RecDone(req[r]) /\ (NoTemp(req[r].resp) \/ NoMoisture(req[r].soil))) =>
        LET t == IF NoTemp(req[r].resp) THEN 25 ELSE req[r].resp.days[1].temp
            m == IF NoMoisture(req[r].soil) THEN 20 ELSE req[r].soil.moisture
        IN  /\ req[r].result.status = 200
            /\ req[r].result.body[1].recommendations =
                 generate_crop_recommendations([days |-> <<[temp |-> t]>>],
                                               [moisture |-> m]).value

\* C19: a get_crop_recommendations request never writes the weather or soil
\* collections and never answers from them: every request calls the weather
\* provider once, and the soil provider once exactly when a polygon id is
\* given, whatever the cache holds; its only store effect is the insertion
\* of one record into the recommendations collection, in the step that
\* completes it with 200.
C19_BypassCache ==
    [][\A r \in Reqs :
         (req'[r] # req[r] /\ "recommendations" \in {req[r].kind, req'[r].kind}) =>
           /\ db'.weather = db.weather
           /\ db'.soil = db.soil
           /\ IF RecDone(req'[r]) /\ req'[r].result.status = 200
              THEN /\ Len(db'.recommendations) = Len(db.recommendations) + 1
                   /\ SubSeq(db'.recommendations, 1, Len(db.recommendations))
                        = db.recommendations
                   /\ LET d == db'.recommendations[Len(db'.recommendations)]
                      IN  /\ d.city = req'[r].key
                          /\ d.polygon_id = req'[r].polygon_id
                          /\ d.recommendations = req'[r].result.body[1].recommendations
              ELSE db'.recommendations = db.recommendations
           /\ RecDone(req'[r]) =>
                /\ req'[r].fetches = 1
                /\ req'[r].soil_fetches = IF req'[r].polygon_id # "" THEN 1 ELSE 0]_vars

\* A request for Delhi and poly123 has completed with one call of each
\* provider while the cache holds a fresh record for both.
C19_Witness ==
    \E r \in Reqs :
      /\ RecDone(req[r]) /\ req[r].result.status = 200
      /\ req[r].key = "Delhi" /\ req[r].polygon_id = "poly123"
      /\ req[r].fetches = 1 /\ req[r].soil_fetches = 1
      /\ \E d \in Stored(db, "weather", "Delhi") : d.updated_at >= now - WeatherTTL
      /\ \E d \in Stored(db, "soil", "poly123") : d.updated_at >= now - SoilTTL
      /\ Len(db.recommendations) = 1


\* C17 as stated: once every get_market_prices request has completed, the
\* market_prices collection holds exactly the 8 mock price records, one per
\* crop name; no interleaving of two requests leaves 16 records or none.
C17_AsClaimed ==
    (/\ \A r \in Reqs : req[r].pc \in {"idle", "done"}
     /\ \E r \in Reqs : req[r].kind = "market" /\ req[r].pc = "done") =>
        /\ Len(db.market_prices) = 8
        /\ \A i \in 1..Len(mock_crops) :
             Cardinality({j \in 1..Len(db.market_prices) :
                            db.market_prices[j].crop_name = mock_crops[i].name}) = 1

\* C18 as stated: when create_agro_polygon returns an empty result, the
\* caller of create_polygon receives the 400 status the handler raises for
\* that case, not a 500 (and no record is inserted).
C18_AsClaimed ==
    \A r \in Reqs :
      (req[r].kind = "polygons" /\ req[r].pc = "done" /\ ~Truthy(req[r].resp)) =>
        req[r].result.status = 400

=========================================================================
